---------------------------- MODULE Spec2Model ----------------------------
(***************************************************************************)
(* A model of uxsdcxx.py, the XSD-to-C++ generator, and of the C++ code it *)
(* emits (count pass, alloc_arenas, load pass, writer).                    *)
(*                                                                         *)
(* Names (Python str) are sequences of character codes, so that sorting by *)
(* name, to_token and string concatenation are computed and not assumed.   *)
(* The empty sequence stands for "no name" / an attribute not yet set.     *)
(***************************************************************************)
EXTENDS Integers, Sequences, FiniteSets, TLC

\* ------------------------------------------------------------------ bounds
\* The child elements of a schema, over all its types, at most.
MaxElems == 2
\* The nodes of a document, at most.
MaxNodes == 4
\* The loads of a union-typed attribute in one run of the program, at most.
MaxLoads == 3
\* The depth of calls, counted from _gen_write_attr, at which Python raises
\* RecursionError.
RecursionLimit == 4

\* ------------------------------------------------------------- basic values
\* occurs[1] of maxOccurs="unbounded" (Python None, tested at lines 205, 226).
Unbounded == -1
NoName == <<>>

\* xs (line 31), abbreviated: "{xs}" for "{http://www.w3.org/2001/XMLSchema}".
xs == <<123, 120, 115, 125>>

RECURSIVE SeqLess(_, _)
\* Python's str "<": lexicographic order on character codes.
SeqLess(a, b) ==
    IF b = <<>> THEN FALSE
    ELSE IF a = <<>> THEN TRUE
    ELSE IF Head(a) /= Head(b) THEN Head(a) < Head(b)
    ELSE SeqLess(Tail(a), Tail(b))

Range(s) == {s[i] : i \in DOMAIN s}

\* The members of seq s, duplicates dropped, first occurrences kept in order
\* (list(dict.fromkeys(s))).
RECURSIVE Dedup(_)
Dedup(s) ==
    IF s = <<>> THEN <<>>
    ELSE LET r == Dedup(SubSeq(s, 1, Len(s) - 1))
         IN IF s[Len(s)] \in Range(r) THEN r ELSE Append(r, s[Len(s)])

\* --------------------------------------------------------- name mangling
\* atomic_builtins: the entries the schemas of this model use.
\*   xs+"int" -> "int", xs+"string" -> "const char *",
\*   xs+"unsignedInt" -> "unsigned int"
atomic_builtins(x) ==
    IF x = xs \o <<105, 110, 116>> THEN <<105, 110, 116>>
    ELSE IF x = xs \o <<115, 116, 114, 105, 110, 103>>
         THEN <<99, 111, 110, 115, 116, 32, 99, 104, 97, 114, 32, 42>>
    ELSE IF x = xs \o <<117, 110, 115, 105, 103, 110, 101, 100, 73, 110, 116>>
         THEN <<117, 110, 115, 105, 103, 110, 101, 100, 32, 105, 110, 116>>
    ELSE NoName

in_atomic_builtins(x) == atomic_builtins(x) /= NoName

\* to_cpp_type: "t_%s" for a user type.
to_cpp_type(x) ==
    IF in_atomic_builtins(x) THEN atomic_builtins(x) ELSE <<116, 95>> \o x

IsAlnumOrUnderscore(c) ==
    \/ (c >= 48 /\ c <= 57)
    \/ (c >= 65 /\ c <= 90)
    \/ (c >= 97 /\ c <= 122)
    \/ c = 95

\* to_token: re.sub(r"[^a-zA-Z0-9_]", "_", x).upper()
to_token(x) ==
    [i \in DOMAIN x |->
        IF ~IsAlnumOrUnderscore(x[i]) THEN 95
        ELSE IF x[i] >= 97 /\ x[i] <= 122 THEN x[i] - 32
        ELSE x[i]]

\* -------------------------------------------------------------- the schema
\* Complex types are "T1", "T2", ...; simple types have the ids below.  The
\* schemas drawn for the annotator have two complex types: enough for a type
\* that contains itself and for a cycle through another type.
AllTypeIds == {"T1", "T2", "T3"}
TypeIds == {"T1", "T2"}

\* The simple types of the schemas: xs:int, the enumeration yesno, the union
\* flag of xs:int and yesno, the union galf of yesno and xs:int, and an
\* anonymous enumeration (declared inside an element, so without a name of
\* its own).
SimpleTypes ==
    [ xs_int |-> [kind |-> "XsdAtomicBuiltin", name |-> xs \o <<105, 110, 116>>,
                  member_types |-> <<>>, parent_name |-> NoName],
      yesno  |-> [kind |-> "XsdAtomicRestriction", name |-> <<121, 101, 115, 110, 111>>,
                  member_types |-> <<>>, parent_name |-> NoName],
      flag   |-> [kind |-> "XsdUnion", name |-> <<102, 108, 97, 103>>,
                  member_types |-> <<"xs_int", "yesno">>, parent_name |-> NoName],
      galf   |-> [kind |-> "XsdUnion", name |-> <<103, 97, 108, 102>>,
                  member_types |-> <<"yesno", "xs_int">>, parent_name |-> NoName],
      anon_enum |-> [kind |-> "XsdAtomicRestriction", name |-> NoName,
                  member_types |-> <<>>, parent_name |-> NoName] ]
SimpleIds == DOMAIN SimpleTypes

\* t.validators[0].enumeration of the enumerations: "yes", "no".
Enumeration(t) == <<<<121, 101, 115>>, <<110, 111>>>>

IsComplex(r) == r \in AllTypeIds

\* Element names by position in the parent: "a", "b", "c", ...
ElemName(j) == <<96 + j>>
RootName == <<114, 111, 111, 116>>

XsdElement(owner, j, nm, ty, occ) ==
    [kind |-> "XsdElement", id |-> <<owner, j>>, name |-> nm, type |-> ty,
     occurs |-> occ, model |-> "", group |-> <<>>]

XsdGroup(mdl, occ, members) ==
    [kind |-> "XsdGroup", id |-> <<"", 0>>, name |-> NoName, type |-> "",
     occurs |-> occ, model |-> mdl, group |-> members]

\* The shape of an element drawn for a schema: its type and its occurs.
ElOccurs == {<<1, 1>>, <<0, 1>>, <<0, 2>>, <<1, Unbounded>>}
ElemSpecs == [type : TypeIds \cup {"xs_int", "anon_enum"}, occurs : ElOccurs]

\* The content group of type t, with the occurs occ of the group itself: its
\* elements in order; with wrap, the last one sits in a nested
\* <xs:choice minOccurs="0" maxOccurs="unbounded">.
ContentOcc(t, es, mdl, wrap, occ) ==
    XsdGroup(mdl, occ,
        [j \in 1..Len(es) |->
            LET el == XsdElement(t, j, ElemName(j), es[j].type, es[j].occurs)
            IN IF wrap /\ j = Len(es)
               THEN XsdGroup("choice", <<0, Unbounded>>, <<el>>)
               ELSE el])

\* The content group that occurs once.
Content(t, es, mdl, wrap) == ContentOcc(t, es, mdl, wrap, <<1, 1>>)

\* The attributes of type i: the first type has one attribute of the union
\* type flag; the others have none.
AttributesOf(t) ==
    IF t = "T1"
    THEN <<[name |-> <<102>>, type |-> "flag", use |-> "optional"]>>
    ELSE <<>>

\* The attributes of type t in the schemas the generated program is run for:
\* the first type has one attribute of type xs:int.
RunAttributesOf(t) ==
    IF t = "T1"
    THEN <<[name |-> <<102>>, type |-> "xs_int", use |-> "optional"]>>
    ELSE <<>>

\* How often the elements of the schema drawn refer to type r.
Refs(es, r) ==
    Cardinality({<<t, j>> \in TypeIds \X (1..MaxElems) :
                    j <= Len(es[t]) /\ es[t][j].type = r})

\* The child elements of the two types: at most MaxElems in all.
ElemSpecPairs ==
    UNION { {[T1 |-> s1, T2 |-> s2] :
                s1 \in [1..k[1] -> ElemSpecs], s2 \in [1..k[2] -> ElemSpecs]} :
            k \in {kk \in (0..MaxElems) \X (0..MaxElems) : kk[1] + kk[2] <= MaxElems} }

\* The schemas the annotator is run on.  T2 may be anonymous (declared inside
\* the one element that has it as type); an anonymous enumeration likewise
\* belongs to one element.  The children of an <xs:all> occur at most once
\* (XSD 1.0), and an <xs:all> holds no nested group.
AnnoShapes ==
    {c \in [es : ElemSpecPairs, mdl : {"sequence", "all"},
            wrap : BOOLEAN, anon : BOOLEAN] :
        /\ Refs(c.es, "anon_enum") <= 1
        /\ c.anon => /\ Refs(c.es, "T2") = 1
                     /\ \A j \in DOMAIN c.es["T2"] : c.es["T2"][j].type /= "T2"
        /\ c.mdl = "all" =>
             /\ ~c.wrap
             /\ \A j \in DOMAIN c.es["T1"] : c.es["T1"][j].occurs[2] = 1}

\* T1 is the global type "p" with the content model drawn; T2 is a sequence.
AnnoSchema(c) ==
    [ ctypes |->
        [t \in TypeIds |->
            [name |-> IF t = "T1" THEN <<112>>
                      ELSE IF c.anon THEN NoName ELSE <<113>>,
             attributes |-> AttributesOf(t),
             content_type |-> Content(t, c.es[t],
                                 IF t = "T1" THEN c.mdl ELSE "sequence", c.wrap)]],
      types |-> IF c.anon THEN <<"T1">> ELSE <<"T1", "T2">>,
      elements |-> <<XsdElement("", 1, RootName, "T1", <<1, 1>>)>> ]

AnnoSchemas == {AnnoSchema(c) : c \in AnnoShapes}

\* The names of the global complex types: "p", "q", "r".
TypeName(t) == CASE t = "T1" -> <<112>> [] t = "T2" -> <<113>> [] OTHER -> <<114>>

\* The child types of three complex types, every type graph with at most
\* MaxElems + 1 child elements in all: chains, shared children, cycles.
TypeGraphs ==
    UNION { {[T1 |-> s1, T2 |-> s2, T3 |-> s3] :
                s1 \in [1..k[1] -> {"T1", "T2", "T3"}],
                s2 \in [1..k[2] -> {"T1", "T2", "T3"}],
                s3 \in [1..k[3] -> {"T1", "T2", "T3"}]} :
            k \in {kk \in (0..MaxElems) \X (0..MaxElems) \X (0..MaxElems) :
                      kk[1] + kk[2] + kk[3] <= MaxElems + 1} }

\* The schemas the sort is run on: three global types with these child
\* types, listed by schema.types in the order given, one global element.
SortSchema(g, order) ==
    [ ctypes |->
        [t \in {"T1", "T2", "T3"} |->
            [name |-> TypeName(t),
             attributes |-> <<>>,
             content_type |->
                Content(t, [j \in DOMAIN g[t] |-> [type |-> g[t][j], occurs |-> <<1, 1>>]],
                        "sequence", FALSE)]],
      types |-> order,
      elements |-> <<XsdElement("", 1, RootName, "T1", <<1, 1>>)>> ]

SortSchemas ==
    {SortSchema(g, order) :
        g \in TypeGraphs,
        order \in {o \in [1..3 -> {"T1", "T2", "T3"}] : Range(o) = {"T1", "T2", "T3"}}}

\* The schemas the generated program is run for.  The generator gets to the
\* end of its output only where every child element has a complex type (or
\* key_ctype fails) and no type under the first global element contains
\* itself and has an attribute of a union type (or gen_write_fn fails), so
\* the children of T1 have the types T2
\* and T3, those of T2 the type T3, and T3 has none.  The <xs:all> of T1 may
\* have minOccurs="0" (allmin).  get_root_element
\* calls count_<element name> where the function is count_<type name>: the
\* global element has the name of its type.
RunElemSpecs(t) ==
    [type : IF t = "T1" THEN {"T2", "T3"} ELSE {"T3"}, occurs : ElOccurs]

RunShapes ==
    {c \in [es : UNION { {[T1 |-> s1, T2 |-> s2, T3 |-> <<>>] :
                            s1 \in [1..k[1] -> RunElemSpecs("T1")],
                            s2 \in [1..k[2] -> RunElemSpecs("T2")]} :
                        k \in {kk \in (0..MaxElems) \X (0..MaxElems) :
                                  kk[1] + kk[2] <= MaxElems} },
             mdl : {"sequence", "choice", "all"}, wrap : BOOLEAN,
             allmin : {0, 1}] :
        /\ c.wrap => c.mdl = "sequence" /\ c.es["T1"] /= <<>>
        /\ c.allmin = 0 => c.mdl = "all" /\ c.es["T1"] /= <<>>
        /\ c.mdl = "all" =>
             \A j \in DOMAIN c.es["T1"] : c.es["T1"][j].occurs[2] = 1}

RunSchema(c) ==
    [ ctypes |->
        [t \in {"T1", "T2", "T3"} |->
            [name |-> TypeName(t),
             attributes |-> RunAttributesOf(t),
             content_type |-> ContentOcc(t, c.es[t],
                                 IF t = "T1" THEN c.mdl ELSE "sequence",
                                 c.wrap /\ t = "T1",
                                 IF t = "T1" THEN <<c.allmin, 1>> ELSE <<1, 1>>)]],
      types |-> <<"T1", "T2", "T3">>,
      elements |-> <<XsdElement("", 1, TypeName("T1"), "T1", <<1, 1>>)>> ]

RunSchemas == {RunSchema(c) : c \in RunShapes}

\* The schemas the loading of a union is run for: the global type p has one
\* attribute f of the union type u, and one child of the empty type q with
\* the occurs drawn.  There are two global elements, q of type q and p of
\* type p: gen_write_fn gets the first one, whose type has no attribute.
UnionSchema(u, occ) ==
    [ ctypes |->
        [t \in TypeIds |->
            [name |-> TypeName(t),
             attributes |-> IF t = "T1"
                            THEN <<[name |-> <<102>>, type |-> u, use |-> "optional"]>>
                            ELSE <<>>,
             content_type |->
                Content(t, IF t = "T1" THEN <<[type |-> "T2", occurs |-> occ]>> ELSE <<>>,
                        "sequence", FALSE)]],
      types |-> <<"T1", "T2">>,
      elements |-> <<XsdElement("", 1, TypeName("T2"), "T2", <<1, 1>>),
                     XsdElement("", 2, TypeName("T1"), "T1", <<1, 1>>)>> ]

UnionSchemas == {UnionSchema(u, occ) : u \in {"flag", "galf"}, occ \in ElOccurs}

\* ------------------------------------------------------------------- state
VARIABLES
    schema,                   \* the schema read at line 154 (never changed)
    type_name,                \* t.name of every type (anonymous types get one)
    cpp_type,                 \* t.cpp_type of every type; NoName while unset
    el_cpp_type,              \* t.cpp_type of every element; NoName while unset
    many,                     \* t.many of every element
    optional,                 \* t.optional of every element
    attribute_list,           \* t.attribute_list of every complex type
    model,                    \* t.model of every complex type
    child_elements,           \* t.child_elements of every complex type
    dfa,                      \* t.dfa of every complex type
    anonymous_complex_types,  \* line 159
    enums,                    \* line 162
    unions,                   \* line 163
    simple_types,             \* line 167
    arena_types,              \* line 171
    types,                    \* line 174
    stack,                    \* the Python call stack of the annotator
    cursor,                   \* the index of the module-level for loops
    pc,                       \* where the script, then the generated program, is
    type_tag_definition,      \* line 361: the members of enum class type_tag
    arena_declarations,       \* lines 371-374: the arena types, as declared
    count_masks,              \* line 505: the mask of every all-model type
    write_attrs,              \* lines 729-730: the code that writes the attributes
    call_targets,             \* the calls count_<X>(..), load_<X>(..) emitted
    doc,                      \* the document get_root_element is given
    g_num,                    \* the counters g_num_<T>
    arena,                    \* the size of <T>_arena; NullPtr while unallocated
    mem,                      \* what the load pass has stored
    callstack,                \* the call stack of the generated program
    os,                       \* what write_root_element has written
    errno,                    \* the C library's errno
    attr,                     \* the union-typed attribute of the root element
    attr_value,               \* attr.value() of the load last made
    load_status,              \* how the load last made ended
    nloads                    \* the loads of the attribute made so far

annoVars == <<type_name, cpp_type, el_cpp_type, many, optional, attribute_list,
              model, child_elements, dfa, anonymous_complex_types, enums, unions,
              simple_types, arena_types>>
genVarsButPc == <<schema, annoVars, types, stack, cursor>>
genVars == <<genVarsButPc, pc>>
emitVars == <<type_tag_definition, arena_declarations, count_masks, write_attrs,
              call_targets>>
unionVars == <<errno, attr, attr_value, load_status, nloads>>
runVars == <<doc, g_num, arena, mem, callstack, os, unionVars>>

vars == <<genVars, emitVars, runVars>>

\* The complex types of the schema read, and every type an element or an
\* attribute can have.
ComplexIds == DOMAIN schema.ctypes
TypeRefs == ComplexIds \cup SimpleIds

\* The elements of the schema read: the global ones and the children of its types.
ElemIds == {schema.elements[k].id : k \in DOMAIN schema.elements}
              \cup (ComplexIds \X (1..(MaxElems + 1)))

\* ------------------------------------------------- simple-type annotation
\* The registries anno_type_simple_type reads and writes, as one record.
Registry ==
    [type_name |-> type_name, cpp_type |-> cpp_type, enums |-> enums,
     unions |-> unions, simple_types |-> simple_types]

\* anno_type_restriction: "enum_%s"; an unnamed member takes its parent's name.
anno_type_restriction(t, reg) ==
    LET nm == IF reg.type_name[t] = NoName THEN SimpleTypes[t].parent_name
              ELSE reg.type_name[t]
    IN [reg EXCEPT !.type_name[t] = nm,
                   !.cpp_type[t] = <<101, 110, 117, 109, 95>> \o nm,
                   !.enums = Append(@, t)]

RECURSIVE anno_type_simple_type(_, _)
RECURSIVE anno_union_members(_, _, _)
\* The loop of anno_type_union over t.member_types, from member k on.
anno_union_members(ms, k, reg) ==
    IF k > Len(ms) THEN reg
    ELSE LET r == anno_type_simple_type(ms[k], reg)
         IN anno_union_members(ms, k + 1,
                [r EXCEPT !.simple_types = @ \cup {ms[k]}])

\* anno_type_union: "union_%s", the members annotated and registered.
anno_type_union(t, reg) ==
    LET r0 == [reg EXCEPT !.cpp_type[t] =
                   <<117, 110, 105, 111, 110, 95>> \o reg.type_name[t]]
        r1 == anno_union_members(SimpleTypes[t].member_types, 1, r0)
    IN [r1 EXCEPT !.unions = Append(@, t)]

anno_type_simple_type(t, reg) ==
    CASE SimpleTypes[t].kind = "XsdAtomicBuiltin" ->
            [reg EXCEPT !.cpp_type[t] = atomic_builtins(reg.type_name[t])]
      [] SimpleTypes[t].kind = "XsdAtomicRestriction" -> anno_type_restriction(t, reg)
      [] SimpleTypes[t].kind = "XsdList" ->
            [reg EXCEPT !.cpp_type[t] =
                <<99, 111, 110, 115, 116, 32, 99, 104, 97, 114, 32, 42>>]
      [] SimpleTypes[t].kind = "XsdUnion" -> anno_type_union(t, reg)

\* The loop of anno_type_complex_type over t.attribute_list (lines 275-277).
RECURSIVE anno_attributes(_, _, _)
anno_attributes(attrs, k, reg) ==
    IF k > Len(attrs) THEN reg
    ELSE anno_attributes(attrs, k + 1, anno_type_simple_type(attrs[k].type, reg))

\* ------------------------------------------------------------ the DFA
\* dfa_from_group (module dfa) is not among the sources here; it is taken as
\* its contract has it: a DFA over the child elements of the group that
\* accepts the sequences the group allows.  The symbol of a child element is
\* its place in the flat child list.  The DFA kept is the trie of the words
\* of the group of at most LangCap symbols: a state is the word read so far,
\* a transition is defined where some word goes on that way.
LangCap == MaxNodes + MaxElems - 1

Concat(A, B) == {w \in {a \o b : a \in A, b \in B} : Len(w) <= LangCap}

RECURSIVE Power(_, _)
Power(A, k) == IF k = 0 THEN {<<>>} ELSE Concat(A, Power(A, k - 1))

\* The words of A repeated as often as occurs allows.
Repeat(A, occurs) ==
    UNION {Power(A, k) :
              k \in occurs[1]..(IF occurs[2] = Unbounded THEN LangCap ELSE occurs[2])}

RECURSIVE LangOf(_)
RECURSIVE SeqLang(_, _)
SeqLang(g, k) ==
    IF k > Len(g) THEN {<<>>} ELSE Concat(LangOf(g[k]), SeqLang(g, k + 1))

LangOf(p) ==
    IF p.kind = "XsdElement" THEN Repeat({<<p.id[2]>>}, p.occurs)
    ELSE Repeat(IF p.model = "choice"
                THEN UNION {LangOf(p.group[k]) : k \in DOMAIN p.group}
                ELSE SeqLang(p.group, 1),
                p.occurs)

NoDfa == [words |-> {}]
dfa_from_group(g) == [words |-> LangOf(g)]

IsPrefix(u, w) == Len(u) <= Len(w) /\ SubSeq(w, 1, Len(u)) = u

\* gstate_<T>[state][in] is not -1.
HasTransition(d, state, in) == \E w \in d.words : IsPrefix(Append(state, in), w)
\* state is one of t.dfa.accepts.
Accepts(d, state) == state \in d.words

\* ------------------------------------------------------- group annotation
ManyOf(t, many0) == many0 \/ t.occurs[2] = Unbounded \/ t.occurs[2] > 1
OptionalOf(t, optional0) == optional0 \/ t.occurs[1] = 0

RECURSIVE anno_type_group(_, _, _)
RECURSIVE anno_group_members(_, _, _, _)
\* The loop of anno_type_group over t._group from member k on: the calls of
\* anno_type_element it makes, in order, each with the flags it passes.
anno_group_members(g, k, m, o) ==
    IF k > Len(g) THEN <<>>
    ELSE (IF g[k].kind = "XsdGroup"
          THEN anno_type_group(g[k], m, o)
          ELSE <<[e |-> g[k], many |-> m, optional |-> o]>>)
         \o anno_group_members(g, k + 1, m, o)

anno_type_group(t, many0, optional0) ==
    anno_group_members(t.group, 1, ManyOf(t, many0), OptionalOf(t, optional0))

\* The list anno_type_group returns: the elements of the calls, in order.
GroupElements(calls) == [k \in DOMAIN calls |-> calls[k].e]

\* ---------------------------------------------------- the generated program
\* A document node: its tag name and its child nodes, in document order.
Node(nm, kids) == [name |-> nm, kids |-> kids]
NoDoc == Node(NoName, <<>>)

\* A null pointer (the value of a global pointer before alloc_arenas).
NullPtr == -1
\* No mask: the type has no all-model count function.
NoMask == -1

\* A union struct no load has written yet (the "= {}" of line 357): no tag
\* set, no variant written, all bits zero.
NoAttr == [tag |-> NoName, member |-> "", value |-> 0]

\* Memory as the load pass leaves it.  A struct is at an address
\* [base, slot, path]: the global root element (base "root"), or slot k of
\* the arena of type T (base T), then the path of inline child fields from
\* there.  x_list, num and has hold the fields written, keyed by <<address,
\* child position>>; a field never written still has the zero it got from
\* calloc or from the "= {}" of line 357.  loaded keeps, per address, the
\* document nodes load_<T> was called for with out at that address.
ZeroMem == [x_list |-> <<>>, num |-> <<>>, has |-> {}, loaded |-> <<>>]

\* The documents: a root node with one of two names and, below it, at most
\* MaxNodes - 1 nodes with the names of child elements, two levels deep at
\* most (the types go no deeper).  No node has an attribute.
DocNames == {ElemName(j) : j \in 1..MaxElems}

RECURSIVE Forests(_, _)
\* The sequences of trees of n nodes in all and of depth d at most.
Forests(n, d) ==
    IF n = 0 THEN {<<>>}
    ELSE IF d = 0 THEN {}
    ELSE UNION { {<<Node(nm, f)>> \o rest :
                     nm \in DocNames, f \in Forests(k - 1, d - 1),
                     rest \in Forests(n - k, d)} :
                 k \in 1..n }

Docs ==
    {Node(rn, f) : rn \in {TypeName("T1"), ElemName(1)},
                   f \in UNION {Forests(n, Cardinality({"T2", "T3"})) : n \in 0..(MaxNodes - 1)}}

\* ------------------------------------------------------------- the stack
NoElement == XsdElement("", 0, NoName, "", <<0, 0>>)

Frame(fn, t, e, m, o) ==
    [fn |-> fn, t |-> t, e |-> e, many |-> m, optional |-> o,
     calls |-> <<>>, i |-> 0, called |-> FALSE]

Top == stack[Len(stack)]
Pop == SubSeq(stack, 1, Len(stack) - 1)
Push(f) == Append(stack, f)
ReplaceTop(f) == [stack EXCEPT ![Len(stack)] = f]

HasGroup(t) ==
    /\ schema.ctypes[t].content_type.kind = "XsdGroup"
    /\ Len(schema.ctypes[t].content_type.group) > 0
has_simple_content(t) == schema.ctypes[t].content_type.kind /= "XsdGroup"

\* ------------------------------------------------------------ Init (gen)
InitAnnoVars ==
    /\ type_name = [r \in TypeRefs |->
                       IF IsComplex(r) THEN schema.ctypes[r].name
                       ELSE SimpleTypes[r].name]
    /\ cpp_type = [r \in TypeRefs |-> NoName]
    /\ el_cpp_type = [e \in ElemIds |-> NoName]
    /\ many = [e \in ElemIds |-> FALSE]
    /\ optional = [e \in ElemIds |-> FALSE]
    /\ attribute_list = [t \in ComplexIds |-> <<>>]
    /\ model = [t \in ComplexIds |-> "unset"]
    /\ child_elements = [t \in ComplexIds |-> <<>>]
    /\ dfa = [t \in ComplexIds |-> NoDfa]
    /\ anonymous_complex_types = <<>>
    /\ enums = <<>>
    /\ unions = <<>>
    /\ simple_types = {}
    /\ arena_types = {}

\* Nothing is emitted yet.
InitEmitVars ==
    /\ type_tag_definition = <<>>
    /\ arena_declarations = <<>>
    /\ count_masks = [t \in ComplexIds |-> NoMask]
    /\ write_attrs = [t \in ComplexIds |-> <<>>]
    /\ call_targets = {}

\* The generated program before it runs: its globals are zero-initialised.
InitRunVars ==
    /\ doc = NoDoc
    /\ g_num = [t \in ComplexIds |-> 0]
    /\ arena = [t \in ComplexIds |-> NullPtr]
    /\ mem = ZeroMem
    /\ callstack = <<>>
    /\ os = NoDoc
    /\ errno = "0"
    /\ attr = NoAttr
    /\ attr_value = NoName
    /\ load_status = "none"
    /\ nloads = 0

InitOn(schemas) ==
    /\ schema \in schemas
    /\ InitAnnoVars
    /\ types = schema.types
    /\ stack = <<>>
    /\ cursor = 1
    /\ pc = "annotate_types"
    /\ InitEmitVars
    /\ InitRunVars

InitAnno == InitOn(AnnoSchemas)

\* ------------------------------------------------------ annotator actions
\* for t in types: anno_type_complex_type(t)   (lines 295-296)
AnnotateTypes ==
    /\ pc = "annotate_types" /\ stack = <<>>
    /\ IF cursor <= Len(types)
       THEN /\ stack' = Push(Frame("anno_type_complex_type", types[cursor],
                                   NoElement, FALSE, FALSE))
            /\ cursor' = cursor + 1
            /\ pc' = pc
       ELSE /\ pc' = "annotate_elements"
            /\ cursor' = 1
            /\ stack' = stack
    /\ UNCHANGED <<emitVars, runVars, schema, annoVars, types>>

\* for e in elements: anno_type_element(e)   (lines 298-299)
AnnotateElements ==
    /\ pc = "annotate_elements" /\ stack = <<>>
    /\ IF cursor <= Len(schema.elements)
       THEN /\ stack' = Push(Frame("anno_type_element", "",
                                   schema.elements[cursor], FALSE, FALSE))
            /\ cursor' = cursor + 1
            /\ pc' = pc
       ELSE /\ pc' = "sort"
            /\ cursor' = 1
            /\ stack' = stack
    /\ UNCHANGED <<emitVars, runVars, schema, annoVars, types>>

\* t.model of a type with a non-empty content group (lines 282-288).
ModelOf(t) ==
    IF schema.ctypes[t].content_type.model = "all" THEN "all" ELSE "dfa"

AlreadyAnnotated_never(t) == FALSE

\* The guard of anno_type_complex_type (line 270).
AlreadyAnnotated(t) == cpp_type[t] /= NoName

\* anno_type_complex_type, from its entry to the call of anno_type_group
\* (lines 270-289): the guard, then the type's own fields.
anno_type_complex_type_enter ==
    /\ stack /= <<>> /\ Top.fn = "anno_type_complex_type" /\ Top.i = 0
    /\ LET t == Top.t
           reg == anno_attributes(Dedup(schema.ctypes[t].attributes), 1,
                     [Registry EXCEPT !.cpp_type[t] = to_cpp_type(type_name[t])])
       IN IF AlreadyAnnotated(t)
          THEN /\ stack' = Pop
               /\ UNCHANGED annoVars
          ELSE /\ cpp_type' = reg.cpp_type
               /\ type_name' = reg.type_name
               /\ enums' = reg.enums
               /\ unions' = reg.unions
               /\ simple_types' = reg.simple_types
               /\ attribute_list' =
                     [attribute_list EXCEPT ![t] = Dedup(schema.ctypes[t].attributes)]
               /\ model' = [model EXCEPT ![t] = IF HasGroup(t) THEN ModelOf(t) ELSE "None"]
               /\ child_elements' = [child_elements EXCEPT ![t] = <<>>]
               /\ dfa' = IF HasGroup(t) /\ ModelOf(t) = "dfa"
                         THEN [dfa EXCEPT ![t] = dfa_from_group(schema.ctypes[t].content_type)]
                         ELSE dfa
               /\ stack' = ReplaceTop([Top EXCEPT
                     !.i = 1,
                     !.calls = IF HasGroup(t)
                               THEN anno_type_group(schema.ctypes[t].content_type,
                                                    FALSE, FALSE)
                               ELSE <<>>])
               /\ UNCHANGED <<el_cpp_type, many, optional,
                              anonymous_complex_types, arena_types>>
    /\ UNCHANGED <<emitVars, runVars, schema, types, cursor, pc>>

\* anno_type_group reaching its next element: anno_type_element(e, many,
\* optional)   (line 233).
anno_type_group_element ==
    /\ stack /= <<>> /\ Top.fn = "anno_type_complex_type"
    /\ Top.i >= 1 /\ Top.i <= Len(Top.calls)
    /\ LET c == Top.calls[Top.i]
       IN stack' = Append(ReplaceTop([Top EXCEPT !.i = @ + 1]),
                          Frame("anno_type_element", "", c.e, c.many, c.optional))
    /\ UNCHANGED <<emitVars, runVars, schema, annoVars, types, cursor, pc>>

\* anno_type_group has returned: t.child_elements is bound, the simple
\* content is annotated, anno_type_complex_type returns (lines 289-291).
anno_type_complex_type_return ==
    /\ stack /= <<>> /\ Top.fn = "anno_type_complex_type"
    /\ Top.i >= 1 /\ Top.i > Len(Top.calls)
    /\ LET t == Top.t
           reg == IF has_simple_content(t)
                  THEN anno_type_simple_type(schema.ctypes[t].content_type.type, Registry)
                  ELSE Registry
       IN /\ child_elements' = [child_elements EXCEPT ![t] =
                                    IF HasGroup(t) THEN GroupElements(Top.calls) ELSE @]
          /\ cpp_type' = reg.cpp_type
          /\ type_name' = reg.type_name
          /\ enums' = reg.enums
          /\ unions' = reg.unions
          /\ simple_types' = reg.simple_types
    /\ stack' = Pop
    /\ UNCHANGED <<emitVars, runVars, schema, el_cpp_type, many, optional,
                   attribute_list, model, dfa, anonymous_complex_types,
                   arena_types, types, cursor, pc>>

\* The tail of anno_type_element (lines 218-221), for element e with the
\* flags m and o, given the registries as they are by then.
ElementTail(e, m, o, ct) ==
    /\ many' = [many EXCEPT ![e.id] = m]
    /\ optional' = [optional EXCEPT ![e.id] = o]
    /\ arena_types' = IF m THEN arena_types \cup {e.type} ELSE arena_types
    /\ el_cpp_type' = [el_cpp_type EXCEPT ![e.id] = ct[e.type]]

\* anno_type_element from its entry to the annotation of its type (lines
\* 203-216): a complex type is a call, a simple type is annotated in place.
anno_type_element_enter ==
    /\ stack /= <<>> /\ Top.fn = "anno_type_element" /\ ~Top.called
    /\ LET e == Top.e
           m == ManyOf(e, Top.many)
           o == OptionalOf(e, Top.optional)
           anon == type_name[e.type] = NoName
           named == IF anon THEN [type_name EXCEPT ![e.type] = e.name] ELSE type_name
           acts == IF anon THEN Append(anonymous_complex_types, e.type)
                   ELSE anonymous_complex_types
           reg == anno_type_simple_type(e.type, [Registry EXCEPT !.type_name = named])
       IN IF el_cpp_type[e.id] /= NoName
          THEN /\ stack' = Pop
               /\ UNCHANGED annoVars
          ELSE IF IsComplex(e.type)
          THEN /\ type_name' = named
               /\ anonymous_complex_types' = acts
               /\ stack' = Append(
                     ReplaceTop([Top EXCEPT !.many = m, !.optional = o, !.called = TRUE]),
                     Frame("anno_type_complex_type", e.type, NoElement, FALSE, FALSE))
               /\ UNCHANGED <<cpp_type, el_cpp_type, many, optional, attribute_list,
                              model, child_elements, dfa, enums, unions,
                              simple_types, arena_types>>
          ELSE /\ anonymous_complex_types' = acts
               /\ type_name' = reg.type_name
               /\ cpp_type' = reg.cpp_type
               /\ enums' = reg.enums
               /\ unions' = reg.unions
               /\ simple_types' = reg.simple_types
               /\ ElementTail(e, m, o, reg.cpp_type)
               /\ stack' = Pop
               /\ UNCHANGED <<attribute_list, model, child_elements, dfa>>
    /\ UNCHANGED <<emitVars, runVars, schema, types, cursor, pc>>

\* anno_type_element after anno_type_complex_type(t.type) has returned
\* (lines 214, 218-221).
anno_type_element_return ==
    /\ stack /= <<>> /\ Top.fn = "anno_type_element" /\ Top.called
    /\ IF cpp_type[Top.e.type] = NoName
       THEN UNCHANGED <<many, optional, arena_types, el_cpp_type>>
       ELSE ElementTail(Top.e, Top.many, Top.optional, cpp_type)
    /\ stack' = Pop
    /\ UNCHANGED <<emitVars, runVars, schema, type_name, cpp_type, attribute_list,
                   model, child_elements, dfa, anonymous_complex_types, enums,
                   unions, simple_types, types, cursor, pc>>

Annotate ==
    \/ AnnotateTypes
    \/ AnnotateElements
    \/ anno_type_complex_type_enter
    \/ anno_type_group_element
    \/ anno_type_complex_type_return
    \/ anno_type_element_enter
    \/ anno_type_element_return

\* ------------------------------------------------------ sort by tree height
RECURSIVE key_ctype(_, _)
RECURSIVE key_children(_, _, _)
\* The list comprehension of line 306 from child k on: the largest key so far
\* and the visited set, which every call shares.  err: x.child_elements was
\* read on a type that has none (a simple type): AttributeError.
key_children(ys, k, acc) ==
    IF k > Len(ys) \/ acc.err THEN acc
    ELSE LET r == key_ctype(ys[k].type, acc.visited)
         IN key_children(ys, k + 1,
               [h |-> IF r.h > acc.h THEN r.h ELSE acc.h,
                visited |-> r.visited, err |-> r.err])

key_ctype(x, visited) ==
    IF x \in visited THEN [h |-> 0, visited |-> visited, err |-> FALSE]
    ELSE IF ~IsComplex(x) THEN [h |-> 0, visited |-> visited \cup {x}, err |-> TRUE]
    ELSE LET r == key_children(child_elements[x], 1,
                     [h |-> 0, visited |-> visited \cup {x}, err |-> FALSE])
         IN [h |-> r.h + 1, visited |-> r.visited, err |-> r.err]

\* list.sort(key=...): stable, ascending.  key is a function on the members.
RECURSIVE SortedBy(_, _)
SortedBy(s, key) ==
    IF s = <<>> THEN <<>>
    ELSE LET r == SortedBy(SubSeq(s, 1, Len(s) - 1), key)
             x == s[Len(s)]
             n == Cardinality({j \in DOMAIN r : key[r[j]] <= key[x]})
         IN SubSeq(r, 1, n) \o <<x>> \o SubSeq(r, n + 1, Len(r))

\* types += anonymous_complex_types; types.sort(key=key_ctype)  (308-309)
SortTypes ==
    /\ pc = "sort"
    /\ LET all == types \o anonymous_complex_types
           keys == [x \in Range(all) |-> key_ctype(x, {})]
       IN IF \E x \in Range(all) : keys[x].err
          THEN /\ types' = all
               /\ pc' = "sort_crashed"
          ELSE /\ types' = SortedBy(all, [x \in Range(all) |-> keys[x].h])
               /\ pc' = "emit"
    /\ UNCHANGED <<emitVars, runVars, schema, annoVars, stack, cursor>>

NextAnno == Annotate \/ SortTypes

\* The annotator and the sort on every order of three types.
InitSort == InitOn(SortSchemas)
NextSort ==
    \/ AnnotateTypes
    \/ AnnotateElements
    \/ anno_type_complex_type_enter
    \/ anno_type_group_element
    \/ anno_type_complex_type_return
    \/ anno_type_element_enter
    \/ anno_type_element_return
    \/ SortTypes
SpecSort == InitSort /\ [][NextSort]_vars

\* ------------------------------------------------------------ the emitters
\* Every order a Python set with these members can be iterated in.
SetOrders(S) == {o \in [1..Cardinality(S) -> S] : Range(o) = S}

\* sorted(s, key=lambda x: x.name): stable, ascending; nm gives the names.
RECURSIVE SortedByName(_, _)
SortedByName(s, nm) ==
    IF s = <<>> THEN <<>>
    ELSE LET r == SortedByName(SubSeq(s, 1, Len(s) - 1), nm)
             x == s[Len(s)]
             n == Cardinality({j \in DOMAIN r : ~SeqLess(nm[x], nm[r[j]])})
         IN SubSeq(r, 1, n) \o <<x>> \o SubSeq(r, n + 1, Len(r))

\* The type tags: set([to_token(t.cpp_type) for t in simple_types]).
TypeTags == {to_token(cpp_type[t]) : t \in simple_types}

\* type_tag_definition (lines 360-361): the tags are joined in the order the
\* set of them is iterated in, which the sort of the line before does not fix.
EmitTypeTag ==
    /\ pc = "emit"
    /\ \E o \in SetOrders(TypeTags) : type_tag_definition' = o
    /\ pc' = "emit_arenas"
    /\ UNCHANGED <<genVarsButPc, arena_declarations, count_masks, write_attrs,
                   call_targets, runVars>>

\* arena_declarations (lines 371-374): the set arena_types, sorted by name.
EmitArenaDeclarations ==
    /\ pc = "emit_arenas"
    /\ \E o \in SetOrders(arena_types) :
          arena_declarations' = SortedByName(o, type_name)
    /\ pc' = "emit_count"
    /\ UNCHANGED <<genVarsButPc, type_tag_definition, count_masks, write_attrs,
                   call_targets, runVars>>

Reverse_not(s) == s

\* s[::-1]
Reverse(s) == [i \in DOMAIN s |-> s[Len(s) + 1 - i]]

\* The mask string of _gen_count_all (line 505), as its digits.
all_mask(t) ==
    Reverse([i \in DOMAIN child_elements[t] |->
                IF child_elements[t][i].occurs[1] = 0 THEN 1 ELSE 0])

\* The value of the C++ literal 0b<digits>.
RECURSIVE BinaryLiteral(_)
BinaryLiteral(d) ==
    IF d = <<>> THEN 0
    ELSE 2 * BinaryLiteral(SubSeq(d, 1, Len(d) - 1)) + d[Len(d)]

\* std::bitset: bit i of value v.
Bit(v, i) == (v \div (2 ^ i)) % 2

\* A call emitted: <fn>_<name>(...) in the code of site.
Call(fn, nm, site) == [fn |-> fn, name |-> nm, site |-> site]

\* The calls count_<el.type.name>(node) in the count function of type t: for
\* the children of a complex type in a dfa model (lines 470-473), for every
\* child in an all model (lines 497-499).
count_calls(t) ==
    {Call("count", type_name[child_elements[t][i].type], "count_fn") :
        i \in {j \in DOMAIN child_elements[t] :
                  \/ model[t] = "all"
                  \/ model[t] = "dfa" /\ IsComplex(child_elements[t][j].type)}}

\* The count functions (lines 510-525): of what they are made of, the masks
\* of the all-model types are kept, as the values std::bitset is built from,
\* and the calls of count functions.
EmitCountFns ==
    /\ pc = "emit_count"
    /\ count_masks' = [t \in ComplexIds |->
                          IF t \in Range(types) /\ model[t] = "all"
                          THEN BinaryLiteral(all_mask(t)) ELSE NoMask]
    /\ call_targets' = call_targets \cup UNION {count_calls(t) : t \in Range(types)}
    /\ pc' = "emit_load"
    /\ UNCHANGED <<genVarsButPc, type_tag_definition, arena_declarations, write_attrs,
                   runVars>>

\* _gen_load_element (lines 580-587) can emit the load of element e: its
\* type is a complex type or a built-in; NotImplementedError otherwise.
CanLoadElement(e) ==
    IsComplex(e.type) \/ SimpleTypes[e.type].kind = "XsdAtomicBuiltin"

\* The calls load_<t.type.name>(node, ...) emitted for the elements es
\* (lines 571, 575).
load_calls(es, site) ==
    {Call("load", type_name[es[i].type], site) :
        i \in {j \in DOMAIN es : IsComplex(es[j].type)}}

\* The load functions (lines 630-648): the calls of load functions in them.
EmitLoadFns ==
    /\ pc = "emit_load"
    /\ IF \A t \in Range(types) : \A i \in DOMAIN child_elements[t] :
             CanLoadElement(child_elements[t][i])
       THEN /\ call_targets' = call_targets \cup
                  UNION {load_calls(child_elements[t], "load_fn") : t \in Range(types)}
            /\ pc' = "emit_init"
       ELSE /\ call_targets' = call_targets
            /\ pc' = "load_crashed"
    /\ UNCHANGED <<genVarsButPc, type_tag_definition, arena_declarations, count_masks,
                   write_attrs, runVars>>

\* gen_init_fn (lines 665-684): per global element the calls
\* count_<el.name>(node) and, by _gen_load_element, load_<el.type.name>.
GenInitFn ==
    /\ pc = "emit_init"
    /\ IF \A k \in DOMAIN schema.elements : CanLoadElement(schema.elements[k])
       THEN /\ call_targets' = call_targets
                  \cup {Call("count", schema.elements[k].name, "get_root_element") :
                           k \in DOMAIN schema.elements}
                  \cup load_calls(schema.elements, "get_root_element")
            /\ pc' = "emit_write"
       ELSE /\ call_targets' = call_targets
            /\ pc' = "init_crashed"
    /\ UNCHANGED <<genVarsButPc, type_tag_definition, arena_declarations, count_masks,
                   write_attrs, runVars>>

\* The complex types of the children of type t.
ChildTypes(t) == {child_elements[t][i].type : i \in DOMAIN child_elements[t]}

\* The types below the types S, n levels down at most.
RECURSIVE TypesBelow(_, _)
TypesBelow(S, n) ==
    IF n = 0 THEN S
    ELSE TypesBelow(S \cup UNION {ChildTypes(t) : t \in S}, n - 1)

Descendants(t) == TypesBelow(ChildTypes(t), Cardinality(ComplexIds))

\* _gen_write_element calls itself for every child of el.type, whatever the
\* document: it never returns when a type under el contains itself.
WriteRecurses(el) ==
    \E u \in {el.type} \cup Descendants(el.type) : u \in Descendants(u)

\* A statement of the code emitted to write a simple value: op is "os"
\* (os << container), "lookup" (os << lookup_<arg>[(int)container]), "if"
\* (if(container.tag == type_tag::<arg>) body) or "if_bool"
\* (if((bool)container) body).
Stmt(op, arg, container, body) ==
    [op |-> op, arg |-> arg, container |-> container, body |-> body]

\* to_union_member_type: "as_%s" with re.sub(r"[^a-zA-Z0-9_]", "_", x)
to_union_member_type(x) ==
    <<97, 115, 95>> \o [i \in DOMAIN x |-> IF IsAlnumOrUnderscore(x[i]) THEN x[i] ELSE 95]

RECURSIVE gen_write_simple(_, _, _)
RECURSIVE gen_write_branches(_, _, _, _, _)
\* The loop of _gen_write_simple over t.member_types from member k on (lines
\* 704-706): the call it makes for a member is on t, the union itself.
gen_write_branches(t, k, container, depth, acc) ==
    IF k > Len(SimpleTypes[t].member_types) THEN [err |-> FALSE, code |-> acc]
    ELSE LET m == SimpleTypes[t].member_types[k]
             r == gen_write_simple(t,
                     container \o <<46>> \o to_union_member_type(cpp_type[m]),
                     depth + 1)
         IN IF r.err THEN r
            ELSE gen_write_branches(t, k + 1, container, depth,
                    Append(acc, Stmt("if", to_token(cpp_type[m]), container, r.code)))

\* _gen_write_simple (lines 691-709) at the given depth of calls: the code
\* it returns, or err: the interpreter has raised RecursionError.
gen_write_simple(t, container, depth) ==
    IF depth >= RecursionLimit THEN [err |-> TRUE, code |-> <<>>]
    ELSE IF SimpleTypes[t].kind \in {"XsdAtomicBuiltin", "XsdList"}
    THEN [err |-> FALSE, code |-> <<Stmt("os", NoName, container, <<>>)>>]
    ELSE IF SimpleTypes[t].kind = "XsdAtomicRestriction"
    THEN [err |-> FALSE, code |-> <<Stmt("lookup", type_name[t], container, <<>>)>>]
    ELSE gen_write_branches(t, 1, container, depth, <<>>)

\* _gen_write_attr (lines 711-719); no attribute here has a default.
gen_write_attr(a, depth) ==
    LET r == gen_write_simple(a.type, a.name, depth + 1)
    IN IF a.use = "required" \/ r.err THEN r
       ELSE [err |-> FALSE, code |-> <<Stmt("if_bool", NoName, a.name, r.code)>>]

\* The types _gen_write_element is called for from element el on.
WrittenTypes(el) == {t \in {el.type} \cup Descendants(el.type) : IsComplex(t)}

\* print(gen_write_fn(elements[0]))  (lines 754-761, 841): RecursionError on a
\* recursive type and on an attribute of a union type, and then the output
\* stops short of write_root_element.
GenWriteFn ==
    /\ pc = "emit_write"
    /\ LET el == schema.elements[1]
           w == [t \in ComplexIds |->
                   IF t \in WrittenTypes(el)
                   THEN [k \in DOMAIN attribute_list[t] |->
                            gen_write_attr(attribute_list[t][k], 0)]
                   ELSE <<>>]
           crashed == \/ WriteRecurses(el)
                      \/ \E t \in ComplexIds : \E k \in DOMAIN w[t] : w[t][k].err
       IN IF crashed
          THEN /\ pc' = "write_crashed"
               /\ write_attrs' = write_attrs
          ELSE /\ pc' = "generated"
               /\ write_attrs' = [t \in ComplexIds |->
                                     [k \in DOMAIN w[t] |-> w[t][k].code]]
    /\ UNCHANGED <<genVarsButPc, type_tag_definition, arena_declarations, count_masks,
                   call_targets, runVars>>

NextGen ==
    \/ AnnotateTypes
    \/ AnnotateElements
    \/ anno_type_complex_type_enter
    \/ anno_type_group_element
    \/ anno_type_complex_type_return
    \/ anno_type_element_enter
    \/ anno_type_element_return
    \/ SortTypes
    \/ EmitTypeTag
    \/ EmitArenaDeclarations
    \/ EmitCountFns
    \/ EmitLoadFns
    \/ GenInitFn
    \/ GenWriteFn

\* The generator from the schema to the end of its output.
SpecGen == InitAnno /\ [][NextGen]_vars

SpecAnno == InitAnno /\ [][NextAnno]_vars

\* sorted(S, key=lambda x: x.name) where the names of the members differ.
ByName(S) == SortedByName(CHOOSE o \in SetOrders(S) : TRUE, type_name)

\* ------------------------------------------------- the generated program
\* A node of the document by its path: the places of its ancestors and of
\* itself among their siblings, from the root down.
RECURSIVE NodeAt(_, _)
NodeAt(d, path) ==
    IF path = <<>> THEN d ELSE NodeAt(d.kids[path[1]], Tail(path))

Kids(path) == NodeAt(doc, path).kids

\* glex_<T>: the token of a child name, 0 where the lexer throws.
glex(t, nm) ==
    IF \E i \in DOMAIN child_elements[t] : child_elements[t][i].name = nm
    THEN CHOOSE i \in DOMAIN child_elements[t] :
            /\ child_elements[t][i].name = nm
            /\ \A k \in 1..(i - 1) : child_elements[t][k].name /= nm
    ELSE 0

\* The type that count_<nm>, load_<nm>, g_num_<nm> and <nm>_arena belong to.
HasFn(nm) == \E t \in Range(types) : type_name[t] = nm
ByTypeName(nm) == CHOOSE t \in Range(types) : type_name[t] = nm

\* Addresses of structs: the global root element, slot k of an arena, and
\* the inline field of child j of the struct at a.
RootAddr == [base |-> "root", slot |-> 0, path |-> <<>>]
ArenaAddr(T, k) == [base |-> T, slot |-> k, path |-> <<>>]
Field(a, j) == [a EXCEPT !.path = Append(@, j)]

Get(f, k, default) == IF k \in DOMAIN f THEN f[k] ELSE default
Put(f, k, v) == (k :> v) @@ f

RunFrame(fn, t, node, out) ==
    [fn |-> fn, t |-> t, node |-> node, k |-> 1, state |-> <<>>, out |-> out,
     entered |-> FALSE]

RunTop == callstack[Len(callstack)]
\* dfa_error (lines 98-112): the names of the out-edges of the row it is
\* given are collected in the vector expected.
HasOutEdge(d, state) == \E w \in d.words : IsPrefix(state, w) /\ w /= state

\* How dfa_error ends.  It throws the error "Expected ... found ..."; but
\* where the row has no out-edge it reads expected[0] of an empty vector
\* first (line 106), which is undefined: the program may crash there.
dfa_error(d, state) ==
    IF HasOutEdge(d, state) THEN {"count_error"}
    ELSE {"count_error", "count_crashed"}

\* The child element the top frame is at.
ElementAt(f) == child_elements[f.t][glex(f.t, Kids(f.node)[f.k].name)]

\* get_root_element (lines 665-684) up to the call of count_<el.name>.
get_root_element ==
    /\ pc = "generated"
    /\ HasFn(schema.elements[1].name)
    /\ \E d \in Docs :
          /\ doc' = d
          /\ IF d.name = schema.elements[1].name
             THEN /\ callstack' = <<RunFrame("count", ByTypeName(schema.elements[1].name),
                                             <<>>, RootAddr)>>
                  /\ pc' = "count"
             ELSE /\ callstack' = <<>>
                  /\ pc' = "count_error"
    /\ UNCHANGED <<genVarsButPc, emitVars, g_num, arena, mem, os,
                   unionVars>>

\* One turn of the loop of a count function over the children of its node
\* (lines 463-476, 491-501, 518): lex, check, and call count_<child type>.
count_child ==
    /\ pc = "count" /\ callstack /= <<>>
    /\ RunTop.k <= Len(Kids(RunTop.node))
    /\ LET f == RunTop
           t == f.t
           in == glex(t, Kids(f.node)[f.k].name)
           el == child_elements[t][in]
           ok == /\ model[t] /= "None"
                 /\ in /= 0
                 /\ model[t] = "dfa" => HasTransition(dfa[t], f.state, in)
                 /\ model[t] = "all" => in \notin Range(f.state)
       IN IF ~ok
          THEN /\ callstack' = <<>>
               /\ pc' \in IF model[t] = "dfa" /\ in /= 0
                          THEN dfa_error(dfa[t], f.state)
                          ELSE {"count_error"}
          ELSE IF model[t] = "dfa" /\ ~IsComplex(el.type)
          THEN /\ callstack' = [callstack EXCEPT ![Len(callstack)] =
                                   [f EXCEPT !.state = Append(@, in), !.k = @ + 1]]
               /\ pc' = pc
          ELSE /\ callstack' =
                     Append([callstack EXCEPT ![Len(callstack)] =
                                 [f EXCEPT !.state = Append(@, in)]],
                            RunFrame("count", ByTypeName(type_name[el.type]),
                                     Append(f.node, f.k), RootAddr))
               /\ pc' = pc
    /\ UNCHANGED <<genVarsButPc, emitVars, doc, g_num, arena, mem, os,
                   unionVars>>

CountsInArena_always(el) == TRUE

\* if el.many: g_num_<type>++  (line 473)
CountsInArena(el) == many[el.id]

\* The end of a count function (lines 478-481, 505-507): the check at end of
\* input, the return, and what the caller does next: its g_num_<type>++ for
\* a many child of a dfa type, and its loop going on.
count_return ==
    /\ pc = "count" /\ callstack /= <<>>
    /\ RunTop.k > Len(Kids(RunTop.node))
    /\ LET f == RunTop
           t == f.t
           ok == /\ model[t] = "dfa" => Accepts(dfa[t], f.state)
                 /\ model[t] = "all" =>
                       \A i \in DOMAIN child_elements[t] :
                           i \in Range(f.state) \/ Bit(count_masks[t], i - 1) = 1
       IN IF ~ok
          THEN /\ callstack' = <<>>
               /\ pc' \in IF model[t] = "dfa" THEN dfa_error(dfa[t], f.state)
                          ELSE {"count_error"}
               /\ g_num' = g_num
          ELSE IF Len(callstack) = 1
          THEN /\ callstack' = <<>>
               /\ pc' = "alloc"
               /\ g_num' = g_num
          ELSE LET c == callstack[Len(callstack) - 1]
                   el == ElementAt(c)
                   T == ByTypeName(type_name[el.type])
               IN /\ callstack' = Append(SubSeq(callstack, 1, Len(callstack) - 2),
                                         [c EXCEPT !.k = @ + 1])
                  /\ pc' = pc
                  /\ g_num' = IF model[c.t] = "dfa" /\ CountsInArena(el)
                              THEN [g_num EXCEPT ![T] = @ + 1]
                              ELSE g_num
    /\ UNCHANGED <<genVarsButPc, emitVars, doc, arena, mem, os,
                   unionVars>>

ZeroCounters_not(g) == g

\* g_num_<T> = 0 for every arena type  (lines 658-659)
ZeroCounters(g) == [t \in DOMAIN g |-> IF t \in arena_types THEN 0 ELSE g[t]]

\* alloc_arenas (lines 652-661): one calloc per arena type in the order of
\* the names; a calloc that gives NULL (no memory; or, where the library has
\* it so, a size of 0) throws; then every counter is set to 0.
alloc_arenas ==
    /\ pc = "alloc"
    /\ LET order == ByName(arena_types)
       IN \E n \in 0..Len(order) :
             /\ n < Len(order) => pc' = "alloc_error" /\ g_num' = g_num
             /\ n = Len(order) => pc' = "load" /\ g_num' = ZeroCounters(g_num)
             /\ arena' = [t \in DOMAIN arena |->
                            IF \E i \in 1..n : order[i] = t THEN g_num[t] ELSE arena[t]]
    /\ UNCHANGED <<genVarsButPc, emitVars, doc, mem, callstack, os,
                   unionVars>>

\* get_root_element after alloc_arenas: load_<type>(node, &<el.name>)
\* (lines 676, 576).
load_root_element ==
    /\ pc = "load" /\ callstack = <<>>
    /\ callstack' = <<RunFrame("load", ByTypeName(type_name[schema.elements[1].type]),
                               <<>>, RootAddr)>>
    /\ UNCHANGED <<genVarsButPc, pc, emitVars, doc, g_num, arena, mem, os,
                   unionVars>>

RECURSIVE BindLists(_, _, _, _)
\* out-><x>_list = &<type>_arena[g_num_<type>] for the many children of t,
\* from child j on  (lines 591-592).
BindLists(t, out, j, xl) ==
    IF j > Len(child_elements[t]) THEN xl
    ELSE BindLists(t, out, j + 1,
            IF many[child_elements[t][j].id]
            THEN Put(xl, <<out, j>>,
                     g_num[ByTypeName(type_name[child_elements[t][j].type])])
            ELSE xl)

\* The entry of load_<T> (lines 591-592).
load_enter ==
    /\ pc = "load" /\ callstack /= <<>> /\ ~RunTop.entered
    /\ LET f == RunTop
       IN /\ mem' = [mem EXCEPT
                 !.x_list = IF model[f.t] \in {"dfa", "all"}
                            THEN BindLists(f.t, f.out, 1, @) ELSE @,
                 !.loaded = Put(@, f.out,
                                Append(Get(@, f.out, <<>>), [node |-> f.node, t |-> f.t]))]
          /\ callstack' = [callstack EXCEPT ![Len(callstack)] = [f EXCEPT !.entered = TRUE]]
    /\ UNCHANGED <<genVarsButPc, pc, emitVars, doc, g_num, arena, os,
                   unionVars>>

\* One turn of the loop of load_<T> over the children of its node (lines
\* 593-600, 567-578): the call of load_<child type>, into the arena for a
\* many child, into the field of the parent otherwise.
load_child ==
    /\ pc = "load" /\ callstack /= <<>> /\ RunTop.entered
    /\ model[RunTop.t] \in {"dfa", "all"}
    /\ RunTop.k <= Len(Kids(RunTop.node))
    /\ LET f == RunTop
           in == glex(f.t, Kids(f.node)[f.k].name)
           el == child_elements[f.t][in]
           T == ByTypeName(type_name[el.type])
       IN IF in = 0
          THEN /\ callstack' = <<>>
               /\ pc' = "load_error"
          ELSE IF many[el.id] /\ g_num[T] >= arena[T]
          THEN /\ callstack' = <<>>
               /\ pc' = "load_overflow"
          ELSE /\ callstack' =
                     Append(callstack,
                            RunFrame("load", T, Append(f.node, f.k),
                                     IF many[el.id] THEN ArenaAddr(T, g_num[T])
                                     ELSE Field(f.out, in)))
               /\ pc' = pc
    /\ UNCHANGED <<genVarsButPc, emitVars, doc, g_num, arena, mem, os,
                   unionVars>>

Incr_back(n) == n - 1

\* g_num_<type>++  (line 572)
Incr(n) == n + 1

\* The return of load_<T> (lines 570-578, 630-644) and what the caller does
\* next: g_num_<type>++ and out->num_<x>++ for a many child, out->has_<x> = 1
\* for an optional one, and its loop going on.
load_return ==
    /\ pc = "load" /\ callstack /= <<>> /\ RunTop.entered
    /\ \/ model[RunTop.t] \notin {"dfa", "all"}
       \/ RunTop.k > Len(Kids(RunTop.node))
    /\ IF Len(callstack) = 1
       THEN /\ callstack' = <<>>
            /\ pc' = "loaded"
            /\ UNCHANGED <<g_num, mem>>
       ELSE LET c == callstack[Len(callstack) - 1]
                j == glex(c.t, Kids(c.node)[c.k].name)
                el == child_elements[c.t][j]
                T == ByTypeName(type_name[el.type])
            IN /\ callstack' = Append(SubSeq(callstack, 1, Len(callstack) - 2),
                                      [c EXCEPT !.k = @ + 1])
               /\ pc' = pc
               /\ g_num' = IF many[el.id] THEN [g_num EXCEPT ![T] = Incr(@)] ELSE g_num
               /\ mem' = IF many[el.id]
                         THEN [mem EXCEPT !.num = Put(@, <<c.out, j>>,
                                                      Get(@, <<c.out, j>>, 0) + 1)]
                         ELSE IF optional[el.id]
                         THEN [mem EXCEPT !.has = @ \cup {<<c.out, j>>}]
                         ELSE mem
    /\ UNCHANGED <<genVarsButPc, emitVars, doc, arena, os,
                   unionVars>>

RECURSIVE write_element(_, _)
RECURSIVE write_children(_, _, _)
RECURSIVE write_list(_, _, _, _)
\* The loop over <x>_list[0 .. num_<x> - 1]  (lines 736-740).
write_list(e, T, from, n) ==
    IF n = 0 THEN <<>>
    ELSE <<write_element(e, ArenaAddr(T, from))>> \o write_list(e, T, from + 1, n - 1)

\* The loop over el.type.child_elements from child j on  (lines 735-748).
write_children(t, a, j) ==
    IF j > Len(child_elements[t]) THEN <<>>
    ELSE LET e == child_elements[t][j]
         IN (IF many[e.id]
             THEN write_list(e, ByTypeName(type_name[e.type]),
                             Get(mem.x_list, <<a, j>>, 0), Get(mem.num, <<a, j>>, 0))
             ELSE IF optional[e.id] /\ <<a, j>> \notin mem.has
             THEN <<>>
             ELSE <<write_element(e, Field(a, j))>>)
            \o write_children(t, a, j + 1)

\* What the code _gen_write_element makes for element el writes for the
\* struct at address a: the element and, inside, its children.
write_element(el, a) == Node(el.name, write_children(el.type, a, 1))

\* write_root_element  (lines 754-761)
write_root_element ==
    /\ pc = "loaded"
    /\ os' = write_element(schema.elements[1], RootAddr)
    /\ pc' = "written"
    /\ UNCHANGED <<genVarsButPc, emitVars, doc, g_num, arena, mem, callstack,
                   unionVars>>

\* ------------------------------------------------- loading a simple value
IsDigit(c) == c >= 48 /\ c <= 57

\* The digits a string begins with.
RECURSIVE DigitPrefix(_)
DigitPrefix(in) ==
    IF in = <<>> \/ ~IsDigit(Head(in)) THEN <<>>
    ELSE <<Head(in)>> \o DigitPrefix(Tail(in))

\* The number a string of digits is the decimal numeral of.
RECURSIVE DecimalValue(_)
DecimalValue(ds) ==
    IF ds = <<>> THEN 0
    ELSE 10 * DecimalValue(SubSeq(ds, 1, Len(ds) - 1)) + (ds[Len(ds)] - 48)

\* The numeral ds (no leading zero) is greater than the numeral top.
NumeralAbove(ds, top) ==
    Len(ds) > Len(top) \/ (Len(ds) = Len(top) /\ SeqLess(top, ds))

\* LONG_MAX where long has 64 bits: "9223372036854775807".
LongMaxNumeral ==
    <<57, 50, 50, 51, 51, 55, 50, 48, 51, 54, 56, 53, 52, 55, 55, 53, 56, 48, 55>>

\* container = std::strtol(in, NULL, 10) for a container of type int (the
\* load format of xs:int, line 63), for inputs without sign and white space:
\* the outcomes [value, errno].  A successful conversion leaves errno as it
\* was.  With no digits the result is 0 and errno is left alone (ISO C) or
\* set to EINVAL (POSIX allows both).  Beyond LONG_MAX the result is LONG_MAX,
\* which the assignment to int brings to -1, and errno is ERANGE.  The values
\* in between INT_MAX and LONG_MAX are not among the inputs drawn.
strtol(in, e) ==
    LET ds == DigitPrefix(in)
    IN IF ds = <<>>
       THEN {[value |-> 0, errno |-> e], [value |-> 0, errno |-> "EINVAL"]}
       ELSE IF NumeralAbove(ds, LongMaxNumeral)
       THEN {[value |-> -1, errno |-> "ERANGE"]}
       ELSE {[value |-> DecimalValue(ds), errno |-> e]}

\* lex_<enum>(in, false) (lines 387-398): the value of the enumerator, the
\* place of in among the enumeration counted from 1; UXSD_INVALID = 0 else.
lex_enum(t, in) ==
    IF \E i \in DOMAIN Enumeration(t) : Enumeration(t)[i] = in
    THEN CHOOSE i \in DOMAIN Enumeration(t) : Enumeration(t)[i] = in
    ELSE 0

\* The code _gen_load_union emits (lines 530-546), from member k on, run on
\* the input in from the machine state st = [errno, attr, status]: per
\* member the tag is set, the member's variant is assigned, and the value is
\* accepted ("break") if errno == 0 for a built-in, if the variant is not
\* UXSD_INVALID for an enumeration; after the last member: throw.  The
\* result is the set of states the code can end in.
RECURSIVE gen_load_union(_, _, _, _)
gen_load_union(ms, k, in, st) ==
    IF k > Len(ms) THEN {[st EXCEPT !.status = "thrown"]}
    ELSE LET m == ms[k]
             tag == to_token(cpp_type[m])
         IN IF SimpleTypes[m].kind = "XsdAtomicBuiltin"
            THEN UNION {
                   LET st1 == [st EXCEPT !.errno = r.errno,
                                         !.attr = [tag |-> tag, member |-> m,
                                                   value |-> r.value]]
                   IN IF st1.errno = "0"
                      THEN {[st1 EXCEPT !.status = "loaded"]}
                      ELSE gen_load_union(ms, k + 1, in, st1)
                   : r \in strtol(in, st.errno)}
            ELSE LET st1 == [st EXCEPT !.attr = [tag |-> tag, member |-> m,
                                                 value |-> lex_enum(m, in)]]
                 IN IF st1.attr.value /= 0
                    THEN {[st1 EXCEPT !.status = "loaded"]}
                    ELSE gen_load_union(ms, k + 1, in, st1)

\* The attribute values drawn: "42", "yes", "no", "maybe", and a numeral of
\* twenty digits.
AttrValues ==
    { <<52, 50>>, <<121, 101, 115>>, <<110, 111>>, <<109, 97, 121, 98, 101>>,
      [i \in 1..20 |-> 57] }

\* The case of the union-typed attribute in the switch of _gen_load_attrs
\* (lines 617-620, 561-562): load_<T> of the root element meets the
\* attribute with the value in.  An exception leaves get_root_element; its
\* caller may catch it and load again.
load_attr ==
    /\ pc = "generated"
    /\ nloads < MaxLoads
    /\ LET a == attribute_list[schema.elements[Len(schema.elements)].type][1]
       IN /\ SimpleTypes[a.type].kind = "XsdUnion"
          /\ \E in \in AttrValues :
                \E st \in gen_load_union(SimpleTypes[a.type].member_types, 1, in,
                               [errno |-> errno, attr |-> attr, status |-> "running"]) :
                    /\ attr_value' = in
                    /\ errno' = st.errno
                    /\ attr' = st.attr
                    /\ load_status' = st.status
    /\ nloads' = nloads + 1
    /\ UNCHANGED <<genVars, emitVars, doc, g_num, arena, mem, callstack, os>>

InitUnion == InitOn(UnionSchemas)
NextUnion ==
    \/ AnnotateTypes
    \/ AnnotateElements
    \/ anno_type_complex_type_enter
    \/ anno_type_group_element
    \/ anno_type_complex_type_return
    \/ anno_type_element_enter
    \/ anno_type_element_return
    \/ SortTypes
    \/ EmitTypeTag
    \/ EmitArenaDeclarations
    \/ EmitCountFns
    \/ EmitLoadFns
    \/ GenInitFn
    \/ GenWriteFn
    \/ load_attr

\* The generator, then the loads of a union-typed attribute by the program
\* it has made.
SpecUnion == InitUnion /\ [][NextUnion]_vars

Init == InitOn(RunSchemas)
Next ==
    \/ AnnotateTypes
    \/ AnnotateElements
    \/ anno_type_complex_type_enter
    \/ anno_type_group_element
    \/ anno_type_complex_type_return
    \/ anno_type_element_enter
    \/ anno_type_element_return
    \/ SortTypes
    \/ EmitTypeTag
    \/ EmitArenaDeclarations
    \/ EmitCountFns
    \/ EmitLoadFns
    \/ GenInitFn
    \/ GenWriteFn
    \/ get_root_element
    \/ count_child
    \/ count_return
    \/ alloc_arenas
    \/ load_root_element
    \/ load_enter
    \/ load_child
    \/ load_return
    \/ write_root_element

\* The generator, then the program it has made on a document.
Spec == Init /\ [][Next]_vars

\* The Python interpreter runs the script to its end.
SpecAnnoFair == SpecAnno /\ WF_vars(NextAnno)

\* The annotation loops of lines 295-299 are over.
AnnotationDone == pc \notin {"annotate_types", "annotate_elements"}

\* The elements of the annotated graph: the global elements and the child
\* elements of every type.
AnnotatedElements ==
    Range(schema.elements) \cup UNION {Range(child_elements[t]) : t \in ComplexIds}

RECURSIVE Encloses(_, _)
\* Group g holds the element with this id, at any depth.
Encloses(g, id) ==
    \E k \in DOMAIN g.group :
        IF g.group[k].kind = "XsdGroup" THEN Encloses(g.group[k], id)
        ELSE g.group[k].id = id

RECURSIVE EnclosingOccurs(_, _)
\* The occurs of the groups of g (g included) that enclose the element.
EnclosingOccurs(g, id) ==
    IF ~Encloses(g, id) THEN {}
    ELSE {g.occurs} \cup
         UNION {EnclosingOccurs(g.group[k], id) :
                   k \in {j \in DOMAIN g.group : g.group[j].kind = "XsdGroup"}}

MaxAboveOne(occ) == occ[2] = Unbounded \/ occ[2] > 1

\* What the schema says of element e: its own max occurs, or that of a group
\* around it, is greater than 1 or unbounded.
ManyBySchema(e) ==
    \/ MaxAboveOne(e.occurs)
    \/ /\ e.id[1] \in ComplexIds
       /\ \E occ \in EnclosingOccurs(schema.ctypes[e.id[1]].content_type, e.id) :
             MaxAboveOne(occ)

\* C7 (arena identification): after annotation, every element's many flag is
\* what its own and its enclosing groups' max occurs say, and a type U is in
\* arena_types iff U is a complex type and some element of type U is many.
C7_ArenaIdentification ==
    AnnotationDone =>
        /\ \A e \in AnnotatedElements : many[e.id] = ManyBySchema(e)
        /\ \A U \in TypeRefs :
              U \in arena_types <=>
                 /\ IsComplex(U)
                 /\ \E e \in AnnotatedElements : e.type = U /\ many[e.id]

\* anno_type_complex_type is entered for a type that has its cpp_type.
C9_GuardHit ==
    /\ stack /= <<>>
    /\ Top.fn = "anno_type_complex_type" /\ Top.i = 0
    /\ cpp_type[Top.t] /= NoName

\* C9 (annotation idempotence and termination): annotating a complex type
\* that already has its cpp_type changes no derived field, no registry and no
\* arena-set entry, and the annotation of every schema comes to its end,
\* schemas whose types contain themselves included.
C9_IdempotentAndTerminates ==
    /\ [][C9_GuardHit => UNCHANGED <<annoVars, types>>]_vars
    /\ <>AnnotationDone

\* The annotation of a type's child has just come back from the guard: the
\* child's type is one still being annotated further down the stack.
C9_RecursionCut ==
    /\ stack /= <<>>
    /\ Top.fn = "anno_type_element" /\ Top.called
    /\ \E k \in 1..(Len(stack) - 1) :
          stack[k].fn = "anno_type_complex_type" /\ stack[k].t = Top.e.type

\* type_tag_definition is made.
TagsEmitted ==
    pc \notin {"annotate_types", "annotate_elements", "sort", "sort_crashed", "emit"}

\* arena_declarations is made.
ArenasEmitted == TagsEmitted /\ pc /= "emit_arenas"

\* The count functions are made.
CountFnsEmitted == ArenasEmitted /\ pc /= "emit_count"

\* get_root_element is made: every call of a count or load function is
\* emitted.
InitFnEmitted ==
    CountFnsEmitted /\ pc \notin {"emit_load", "load_crashed", "emit_init", "init_crashed"}

\* C8 (determinism): the output is a function of the schema: the members of
\* the type-tag enum are the tags of the union member simple types in the
\* order of these types' names, and the arenas are declared in the order of
\* their types' names, whatever order a set is iterated in.
C8_Deterministic ==
    /\ TagsEmitted =>
          type_tag_definition =
             Dedup([k \in 1..Cardinality(simple_types) |->
                       to_token(cpp_type[ByName(simple_types)[k]])])
    /\ ArenasEmitted =>
          /\ Range(arena_declarations) = arena_types
          /\ \A i, j \in DOMAIN arena_declarations :
                i < j => SeqLess(type_name[arena_declarations[i]],
                                 type_name[arena_declarations[j]])

\* C10 (all-mask correctness): for every all-model type with N children, bit
\* i of the mask its count function is emitted with (i from 0, the place of
\* child i in the child-element list and in the gtok enum) is 1 iff child i
\* has min occurs 0.
C10_AllMask ==
    CountFnsEmitted =>
        \A t \in Range(types) :
            model[t] = "all" =>
                \A i \in DOMAIN child_elements[t] :
                    Bit(count_masks[t], i - 1) = 1
                        <=> child_elements[t][i].occurs[1] = 0

\* An all-model type whose first child may be left out and whose second may
\* not has its count function.
C10_MixedAll ==
    /\ CountFnsEmitted
    /\ \E t \in Range(types) :
          /\ model[t] = "all" /\ Len(child_elements[t]) = 2
          /\ child_elements[t][1].occurs[1] = 0
          /\ child_elements[t][2].occurs[1] = 1

\* ----------------------------------------------- the program on a document
\* The type of the root node.
RootType == ByTypeName(type_name[schema.elements[1].type])

RECURSIVE ManyKids(_, _, _, _)
\* Among the nodes below node n of type t, from child k of n on: those that
\* are an occurrence of an element of type T that the schema lets repeat.
ManyKids(n, t, T, k) ==
    IF k > Len(n.kids) THEN 0
    ELSE LET el == child_elements[t][glex(t, n.kids[k].name)]
         IN (IF ManyBySchema(el) /\ el.type = T THEN 1 ELSE 0)
            + ManyKids(n.kids[k], el.type, T, 1)
            + ManyKids(n, t, T, k + 1)

ManyNodes(T) == ManyKids(doc, RootType, T, 1)

RECURSIVE TypedKids(_, _, _, _)
\* Among the nodes below node n of type t, from child k on: those of type T.
TypedKids(n, t, T, k) ==
    IF k > Len(n.kids) THEN 0
    ELSE LET el == child_elements[t][glex(t, n.kids[k].name)]
         IN (IF el.type = T THEN 1 ELSE 0)
            + TypedKids(n.kids[k], el.type, T, 1)
            + TypedKids(n, t, T, k + 1)

\* The nodes of type T from the root on, the root included.
TNodes(T) == (IF RootType = T THEN 1 ELSE 0) + TypedKids(doc, RootType, T, 1)

\* The count pass has accepted the document; the load pass is over.
CountPassed == pc = "alloc"
LoadPassed == pc \in {"loaded", "written"}

\* C1 (count/load agreement), as stated: for a document the count pass
\* accepts and every arena type T, g_num_T at the end of the count pass is
\* the number of T nodes reachable from the root, and the load pass brings
\* g_num_T to that number again.
C1_CountLoadAgreement ==
    (CountPassed \/ LoadPassed) => \A T \in arena_types : g_num[T] = TNodes(T)

\* C1, amended: g_num_T at the end of the count pass is the number of nodes
\* that are occurrences of a repeatable (many) element of type T, the nodes
\* stored in the arena, and the load pass brings g_num_T to that number
\* again.  The root node and the occurrences of elements that cannot repeat
\* are stored in their parent and are not counted.
C1_ManyCountLoadAgreement ==
    (CountPassed \/ LoadPassed) => \A T \in arena_types : g_num[T] = ManyNodes(T)

\* The load pass is over for a document with two nodes in one arena and a
\* node of the same type outside it.
C1_ArenaAndInline ==
    /\ LoadPassed
    /\ \E T \in arena_types : g_num[T] >= 2 /\ TNodes(T) > g_num[T]

RECURSIVE ChildrenNamed(_, _, _)
\* The paths of the children of the node at path n with the name nm, in
\* document order, from child k on.
ChildrenNamed(n, nm, k) ==
    IF k > Len(Kids(n)) THEN <<>>
    ELSE (IF Kids(n)[k].name = nm THEN <<Append(n, k)>> ELSE <<>>)
         \o ChildrenNamed(n, nm, k + 1)

\* C2 (arena slices are contiguous): when the load pass is over, no struct
\* was handed to load_<T> for two different nodes, and for every node loaded
\* and every many child element x of its type, num_x is the number of its x
\* children and the slots x_list[0 .. num_x - 1] hold exactly these, in
\* document order.
C2_ContiguousSlices ==
    LoadPassed =>
        /\ \A a \in DOMAIN mem.loaded : Len(mem.loaded[a]) = 1
        /\ \A a \in DOMAIN mem.loaded :
              LET n == mem.loaded[a][1].node
                  t == mem.loaded[a][1].t
              IN \A j \in DOMAIN child_elements[t] :
                    many[child_elements[t][j].id] =>
                       LET T == ByTypeName(type_name[child_elements[t][j].type])
                           cs == ChildrenNamed(n, child_elements[t][j].name, 1)
                       IN /\ Get(mem.num, <<a, j>>, 0) = Len(cs)
                          /\ \A i \in DOMAIN cs :
                                Get(mem.loaded,
                                    ArenaAddr(T, Get(mem.x_list, <<a, j>>, 0) + i - 1),
                                    <<>>)
                                   = <<[node |-> cs[i], t |-> T]>>

\* A step that changes counter t is one of: g_num_<t>++ in one of the two
\* passes; alloc_arenas, which has allocated every arena and leaves every
\* counter at zero.
CounterStep(t) ==
    \/ pc \in {"count", "load"} /\ g_num'[t] = g_num[t] + 1
    \/ /\ pc = "alloc"
       /\ \A u \in arena_types : g_num'[u] = 0 /\ arena'[u] /= NullPtr

\* C3 (arena monotonicity), as stated: a counter changes by an increment in
\* the count pass or by the zeroing of alloc_arenas only; the load pass
\* reads the counters and never writes them.
C3_ArenaMonotonicity ==
    [][/\ \A t \in DOMAIN g_num : g_num'[t] /= g_num[t] => CounterStep(t)
       /\ pc = "load" => g_num' = g_num]_vars

\* C3, amended: the count pass and the load pass change a counter by
\* incrementing it and in no other way (the load pass does write: it
\* increments the counter of the type after each many child it has loaded);
\* a counter goes back to zero in alloc_arenas only, which zeroes every
\* counter after allocating every arena, between the two passes.
C3_CountersOnlyIncrementOrReset ==
    [][\A t \in DOMAIN g_num : g_num'[t] /= g_num[t] => CounterStep(t)]_vars

\* The load pass has put a node into an arena and moved the counter on.
C3_LoadCounted == pc = "load" /\ \E t \in arena_types : g_num[t] > 0

NothingAllocated == \A t \in DOMAIN arena : arena[t] = NullPtr

\* C4 (lifecycle ordering): no arena is allocated during the count pass;
\* alloc_arenas begins when the count pass over the root node has returned;
\* the load pass begins when alloc_arenas has allocated every arena, with
\* every counter at zero; after an error of the count pass nothing is
\* allocated and nothing is loaded.
C4_Lifecycle ==
    /\ [](pc \in {"count", "count_error"} => NothingAllocated /\ mem = ZeroMem)
    /\ [](pc = "alloc" => callstack = <<>> /\ mem = ZeroMem)
    /\ [](pc \in {"load", "loaded", "written"} =>
             \A t \in arena_types : arena[t] /= NullPtr)
    /\ [](pc = "load" /\ mem = ZeroMem => \A t \in arena_types : g_num[t] = 0)
    /\ [][/\ pc' = "alloc" => pc = "count"
          /\ (pc' = "load" /\ pc /= "load") => pc = "alloc"
          /\ pc = "count_error" => pc' = "count_error"]_vars

\* The load pass is under way on arenas that hold something.
C4_Loading ==
    /\ pc = "load" /\ callstack /= <<>>
    /\ \E t \in arena_types : arena[t] > 0

RECURSIVE CountAccepts(_, _)
\* count_<t> returns for node n without an error.
CountAccepts(n, t) ==
    LET toks == [k \in DOMAIN n.kids |-> glex(t, n.kids[k].name)]
    IN /\ model[t] = "None" => n.kids = <<>>
       /\ \A k \in DOMAIN toks : toks[k] /= 0
       /\ model[t] = "dfa" => Accepts(dfa[t], toks)
       /\ model[t] = "all" =>
             /\ \A k1, k2 \in DOMAIN toks : toks[k1] = toks[k2] => k1 = k2
             /\ \A i \in DOMAIN child_elements[t] :
                   i \in Range(toks) \/ Bit(count_masks[t], i - 1) = 1
       /\ \A k \in DOMAIN toks :
             CountAccepts(n.kids[k],
                          ByTypeName(type_name[child_elements[t][toks[k]].type]))

\* C5 (round trip): what write_root_element writes for a loaded document is
\* accepted by the count pass again, at every node.  (The claim goes on: and
\* loads to the same state; that needs the document to be accepted first.)
C5_RoundTripAccepted == pc = "written" => CountAccepts(os, RootType)

\* The place of type t in the sorted list.
PlaceOf(t) == CHOOSE i \in DOMAIN types : types[i] = t

\* C6 (height sort total): once the types are sorted, every complex type
\* that is the type of a child element of a type T stands strictly before T.
\* No order can do that for a type that contains T in its turn, so such a
\* child is left out here: what remains of the claim is what an order can
\* achieve, for every type graph and every initial order.
C6_HeightSortTotal ==
    pc = "emit" =>
        \A i \in DOMAIN types :
            \A U \in ChildTypes(types[i]) :
                (IsComplex(U) /\ types[i] \notin {U} \cup Descendants(U))
                    => PlaceOf(U) < i

\* The count function of an all-model type is running: its frame is on top.
InAllCount == pc = "count" /\ callstack /= <<>> /\ model[RunTop.t] = "all"

\* C11 (all-model validation): the count function of an all-model type
\* throws at a child iff the child's name was seen before among the children
\* (the first repeated child), and at the end of the children it throws iff
\* some child element whose annotated optional flag is false has not
\* occurred; so it accepts every permutation, and a child that is optional
\* only through the min occurs 0 of its group may be absent.
C11_AllModelValidation ==
    [][InAllCount =>
          LET f == RunTop
              t == f.t
          IN IF f.k <= Len(Kids(f.node))
             THEN glex(t, Kids(f.node)[f.k].name) /= 0 =>
                     (pc' = "count_error"
                        <=> glex(t, Kids(f.node)[f.k].name) \in Range(f.state))
             ELSE pc' = "count_error"
                     <=> \E i \in DOMAIN child_elements[t] :
                            /\ ~optional[child_elements[t][i].id]
                            /\ i \notin Range(f.state)]_vars

\* The count function of a dfa-model type is running: its frame is on top.
InDfaCount == pc = "count" /\ callstack /= <<>> /\ model[RunTop.t] = "dfa"

\* C12 (DFA validation): the count function of a dfa-model type goes on at
\* a child iff the DFA has a transition on its tag from the state reached,
\* and raises the DFA error at the first child where it has none, before it
\* counts or recurses into that child; at the end of the children it returns
\* iff the state reached is an accept state and raises the DFA error ("end
\* of input") otherwise.
C12_DfaValidation ==
    [][InDfaCount =>
          LET f == RunTop
              t == f.t
          IN IF f.k <= Len(Kids(f.node))
             THEN glex(t, Kids(f.node)[f.k].name) /= 0 =>
                     IF HasTransition(dfa[t], f.state, glex(t, Kids(f.node)[f.k].name))
                     THEN pc' = "count"
                     ELSE pc' = "count_error" /\ callstack' = <<>> /\ g_num' = g_num
             ELSE IF Accepts(dfa[t], f.state)
                  THEN pc' \in {"count", "alloc"}
                  ELSE pc' = "count_error"]_vars

\* The string is a value of xs:int: a decimal numeral up to 2147483647.
ValidInt(in) ==
    /\ in /= <<>>
    /\ DigitPrefix(in) = in
    /\ ~NumeralAbove(in, <<50, 49, 52, 55, 52, 56, 51, 54, 52, 55>>)

\* The parse of the input as member type m succeeds.
ParseSucceeds(m, in) ==
    IF SimpleTypes[m].kind = "XsdAtomicBuiltin" THEN ValidInt(in)
    ELSE \E i \in DOMAIN Enumeration(m) : Enumeration(m)[i] = in

\* The value of the input as member type m.
ParsedValue(m, in) ==
    IF SimpleTypes[m].kind = "XsdAtomicBuiltin" THEN DecimalValue(in)
    ELSE CHOOSE i \in DOMAIN Enumeration(m) : Enumeration(m)[i] = in

\* The member types of the union the attribute of the root element has.
UnionMembers ==
    SimpleTypes[attribute_list[schema.elements[Len(schema.elements)].type][1].type].member_types

\* C13 (union loading): every load of a union value, whatever the loads
\* before it and the parse failures in them, ends with the tag and the
\* variant of the first member type in declaration order whose parse of the
\* input succeeds, holding the value parsed, and throws iff no member's
\* parse succeeds.
C13_UnionLoading ==
    [][nloads' /= nloads =>
          LET ok == {k \in DOMAIN UnionMembers :
                        ParseSucceeds(UnionMembers[k], attr_value')}
          IN IF ok = {}
             THEN load_status' = "thrown"
             ELSE LET m == UnionMembers[CHOOSE k \in ok : \A j \in ok : k <= j]
                  IN /\ load_status' = "loaded"
                     /\ attr'.tag = to_token(cpp_type[m])
                     /\ attr'.member = m
                     /\ attr'.value = ParsedValue(m, attr_value')]_vars

\* What the writer of member type m is to emit for the variant at container.
MemberWriter(m, container) ==
    IF SimpleTypes[m].kind = "XsdAtomicRestriction"
    THEN <<Stmt("lookup", type_name[m], container, <<>>)>>
    ELSE <<Stmt("os", NoName, container, <<>>)>>

\* The branches on the tag in the code emitted for an attribute: the code
\* itself, or what the test of an optional attribute guards.
TagBranches(code) ==
    IF Len(code) = 1 /\ code[1].op = "if_bool" THEN code[1].body ELSE code

\* C14 (union writing): where the element types do not recurse, gen_write_fn
\* comes to its end, and the code it emits for an attribute of a union type
\* has exactly one branch per member type, in order, guarded by the
\* member's type tag and writing the member's variant with the member
\* type's own writer (a built-in directly, an enumeration by its lookup
\* array).
C14_UnionWriting ==
    [][(pc = "emit_write" /\ pc' /= pc /\ ~WriteRecurses(schema.elements[1])) =>
          /\ pc' = "generated"
          /\ \A t \in WrittenTypes(schema.elements[1]) :
                \A k \in DOMAIN attribute_list[t] :
                    LET a == attribute_list[t][k]
                        ms == SimpleTypes[a.type].member_types
                        bs == TagBranches(write_attrs'[t][k])
                    IN SimpleTypes[a.type].kind = "XsdUnion" =>
                          /\ Len(bs) = Len(ms)
                          /\ \A i \in DOMAIN ms :
                                /\ bs[i].op = "if"
                                /\ bs[i].arg = to_token(cpp_type[ms[i]])
                                /\ bs[i].body =
                                      MemberWriter(ms[i],
                                          a.name \o <<46>>
                                             \o to_union_member_type(cpp_type[ms[i]]))]_vars

\* The functions count_<name>, load_<name> are defined: name is the name of
\* a complex type in the emitted type list.
Defined(nm) == \E t \in Range(types) : IsComplex(t) /\ type_name[t] = nm

\* C15 (call-target integrity): every count_<X> and load_<X> call in the
\* emitted code, from the count and load functions and from
\* get_root_element, names a function that is defined.
C15_CallTargets ==
    InitFnEmitted => \A c \in call_targets : Defined(c.name)

\* The anonymous types are merged into the type list (line 308).
TypesMerged == AnnotationDone /\ pc /= "sort"

\* C16 (type-registry well-formedness): once annotation is over and the
\* anonymous types are merged into the type list, every entry of the list
\* is a complex type, is annotated (it has its type name, its C++ type, its
\* attribute list, its content model and its child-element list), and is in
\* the list once; an element whose anonymous type is a simple type has
\* added nothing.
C16_TypeRegistry ==
    TypesMerged =>
        /\ \A i \in DOMAIN types :
              /\ IsComplex(types[i])
              /\ type_name[types[i]] /= NoName
              /\ cpp_type[types[i]] = to_cpp_type(type_name[types[i]])
              /\ model[types[i]] \in {"None", "dfa", "all"}
              /\ attribute_list[types[i]] = Dedup(schema.ctypes[types[i]].attributes)
              /\ HasGroup(types[i]) =>
                    Len(child_elements[types[i]]) > 0
        /\ \A i, j \in DOMAIN types : types[i] = types[j] => i = j

=============================================================================
